---- MODULE Spec2Model ----
(***************************************************************************)
(* The upload receiver of iOS2PC (src/receiver.py): the auth gate, the     *)
(* /status and /upload handlers, the HEIC/HEIF converter and the toast     *)
(* notifier, as a state machine over the save directory.                   *)
(*                                                                         *)
(* Strings are sequences of one-character strings, so that strip, lower,   *)
(* splitext and secure_filename are computed character by character.       *)
(* A behaviour follows one request from its arrival to its response; the   *)
(* save directory it starts from ranges over InitDirs.                     *)
(***************************************************************************)
EXTENDS Integers, Sequences, FiniteSets, TLC

\* ------------------------------------------------------------- bounds

\* Longest "file" list drawn from the whole pool of entries.
MaxFiles == 2
\* Longest "file" list drawn from the reduced pool BatchPool.
BatchFiles == 5
\* Last second the wall clock reaches (seconds after 2026-01-01 00:00:00).
MaxClock == 1
\* Number of converter calls followed by ConvSpec.
MaxCalls == 2

\* ------------------------------------------------------ string helpers

None == "None"

Whitespace == {" "}

Digit == <<"0", "1", "2", "3", "4", "5", "6", "7", "8", "9">>

RECURSIVE LStrip(_, _)
LStrip(s, chars) ==
    IF s # <<>> /\ Head(s) \in chars THEN LStrip(Tail(s), chars) ELSE s

RECURSIVE RStrip(_, _)
RStrip(s, chars) ==
    IF s # <<>> /\ s[Len(s)] \in chars
    THEN RStrip(SubSeq(s, 1, Len(s) - 1), chars)
    ELSE s

\* str.strip(chars)
Strip(s, chars) == RStrip(LStrip(s, chars), chars)

\* str.lower() on the letters the model's names use
LowerChar(c) ==
    CASE c = "A" -> "a"
      [] c = "B" -> "b"
      [] c = "C" -> "c"
      [] c = "E" -> "e"
      [] c = "F" -> "f"
      [] c = "G" -> "g"
      [] c = "H" -> "h"
      [] c = "I" -> "i"
      [] c = "J" -> "j"
      [] c = "N" -> "n"
      [] c = "P" -> "p"
      [] c = "T" -> "t"
      [] c = "X" -> "x"
      [] OTHER -> c

Lower(s) == [i \in DOMAIN s |-> LowerChar(s[i])]

\* str.rfind of one character out of cs: the last index holding it, 0 if none
RFind(s, cs) ==
    LET hits == {i \in DOMAIN s : s[i] \in cs}
    IN IF hits = {} THEN 0 ELSE CHOOSE i \in hits : \A j \in hits : j <= i

\* os.sep and os.altsep of the host (winotify runs on Windows only)
PathSeps == {"\\", "/"}

\* os.path.join(a, b) for a relative b
PathJoin(a, b) == a \o <<"/">> \o b

\* os.path.basename
Basename(p) == SubSeq(p, RFind(p, PathSeps) + 1, Len(p))

\* os.path.splitext: the extension starts at the last dot of the last path
\* component, unless only dots precede it in that component.
SplitAt(p) ==
    LET sepIndex == RFind(p, PathSeps)
        dotIndex == RFind(p, {"."})
    IN IF dotIndex > sepIndex
          /\ \E k \in (sepIndex + 1)..(dotIndex - 1) : p[k] # "."
       THEN dotIndex
       ELSE Len(p) + 1

SplitextRoot(p) == SubSeq(p, 1, SplitAt(p) - 1)

SplitextExt(p) == SubSeq(p, SplitAt(p), Len(p))

\* ", ".join(names)
RECURSIVE JoinComma(_)
JoinComma(names) ==
    IF names = <<>> THEN <<>>
    ELSE IF Len(names) = 1 THEN names[1]
    ELSE names[1] \o <<",", " ">> \o JoinComma(Tail(names))

\* ----------------------------------------------- werkzeug secure_filename

\* The characters _filename_ascii_strip_re keeps: [A-Za-z0-9_.-]
SafeChars ==
    {"a", "b", "c", "e", "f", "g", "h", "i", "j", "n", "p", "t", "x",
     "A", "B", "C", "E", "F", "G", "H", "I", "J", "N", "P", "T", "X",
     "0", "1", "2", "3", "4", "5", "6", "7", "8", "9", "_", ".", "-"}

\* "_".join(s.split()): whitespace runs become one "_", none at the ends
RECURSIVE JoinWords(_)
JoinWords(s) ==
    LET t == LStrip(s, Whitespace)
    IN IF t = <<>> THEN <<>>
       ELSE LET n == IF \E i \in DOMAIN t : t[i] \in Whitespace
                     THEN (CHOOSE i \in DOMAIN t :
                              /\ t[i] \in Whitespace
                              /\ \A j \in 1..(i - 1) : t[j] \notin Whitespace) - 1
                     ELSE Len(t)
                rest == JoinWords(SubSeq(t, n + 1, Len(t)))
            IN IF rest = <<>> THEN SubSeq(t, 1, n)
               ELSE SubSeq(t, 1, n) \o <<"_">> \o rest

\* secure_filename(filename): separators to spaces, words joined by "_",
\* unsafe characters dropped, leading and trailing "." and "_" stripped.
\* (The names of the model are ASCII and none is a Windows device name.)
secure_filename(filename) ==
    LET spaced == [i \in DOMAIN filename |->
                      IF filename[i] \in PathSeps THEN " " ELSE filename[i]]
        joined == JoinWords(spaced)
        kept   == SelectSeq(joined, LAMBDA c : c \in SafeChars)
    IN Strip(kept, {".", "_"})

\* datetime.now().strftime("%Y%m%d-%H%M%S") at second t of the first minute
\* of 2026-01-01
strftime(t) ==
    <<"2", "0", "2", "6", "0", "1", "0", "1", "-", "0", "0", "0", "0">>
        \o <<Digit[(t \div 10) + 1], Digit[(t % 10) + 1]>>

\* ------------------------------------------------------ configuration

\* config["save_dir"], as a path
SAVE_DIR == <<"i", "n", "c">>

\* config["auth_token"]: a secret written with a trailing blank
AUTH_TOKEN == <<"p", "w", " ">>

DELETE_HEIC_AFTER_CONVERT == TRUE

HeicExts == {<<".", "h", "e", "i", "c">>, <<".", "h", "e", "i", "f">>}

PreviewExts ==
    {<<".", "j", "p", "g">>, <<".", "j", "p", "e", "g">>, <<".", "p", "n", "g">>,
     <<".", "b", "m", "p">>, <<".", "g", "i", "f">>}

JpgExt == <<".", "j", "p", "g">>

ConvertedPrefix ==
    <<"(", "c", "o", "n", "v", "e", "r", "t", "e", "d", ")", " ">>

Ellipsis == <<",", " ", ".", ".", ".">>

\* display_names[:3]
MsgLimit == 3

ToastTitle == "File(s) received from iPhone"

\* ------------------------------------------------------------- inputs

\* Client-supplied filenames: none, HEIC/HEIF in both cases of letters, a
\* JPEG named like the HEIC, an upper-case PNG, a text file behind a
\* traversal prefix, and a name made of dots and a separator only.
NameEmpty == <<>>
NameHeic  == <<"a", ".", "h", "e", "i", "c">>
NameHeif  == <<"a", ".", "H", "E", "I", "F">>
NameJpg   == <<"a", ".", "j", "p", "g">>
NamePng   == <<"b", ".", "P", "N", "G">>
NameTxt   == <<".", ".", "/", "a", ".", "t", "x", "t">>
NameDots  == <<".", ".", "/">>

FileNames == {NameEmpty, NameHeic, NameHeif, NameJpg, NamePng, NameTxt, NameDots}

\* Uploaded bytes
Contents == {"c1", "c2"}

\* The bytes of the JPEG that img.save encodes from a decoded upload
Jpeg(c) == <<"jpeg", c>>

\* What an interrupted img.save leaves in the file it had opened
Truncated == "truncated"

\* The entries a short list draws from: every name with the bytes c1, and
\* the text file with the bytes c2 as well
Pool ==
    [filename : FileNames, content : {"c1"}]
        \cup [filename : {NameTxt}, content : Contents]

\* The entries a long list draws from
BatchPool == [filename : {NameTxt, NamePng}, content : {"c1"}]

\* request.files.getlist("file"): short lists over the whole pool, longer
\* ones over the reduced pool
FileLists ==
    UNION {[1..n -> Pool] : n \in 0..MaxFiles}
        \cup UNION {[1..n -> BatchPool] : n \in (MaxFiles + 1)..BatchFiles}

Paths == {"/status", "/upload", "/other"}

\* request.headers.get("X-Auth-Token"): absent, empty, blank, the secret
\* behind a blank, a token in the wrong case, a token with a blank inside
Headers ==
    {None, <<>>, <<" ">>, <<" ", "p", "w">>, <<"p", "W">>, <<"p", " ", "w">>}

Requests == [path : Paths, token : Headers, files : FileLists]

\* What the environment does to one conversion: Image.open/convert raises,
\* img.save raises after opening its file, all succeeds, or all succeeds
\* but os.remove raises OSError.
Outcomes == {"decode_error", "encode_error", "ok", "remove_error"}

\* ---------------------------------------------------------- filesystem

EmptyDir == [p \in {} |-> None]

Write(d, p, c) == [q \in (DOMAIN d) \cup {p} |-> IF q = p THEN c ELSE d[q]]

Remove(d, p) == [q \in (DOMAIN d) \ {p} |-> d[q]]

\* os.path.isfile
IsFile(d, p) == p \in DOMAIN d

\* f"{timestamp}_{safe_name}"
FinalName(timestamp, safe_name) == timestamp \o <<"_">> \o safe_name

\* The save directory at start-up: just created, or holding the original an
\* earlier request left after a failed conversion.
InitDirs ==
    {EmptyDir,
     Write(EmptyDir, PathJoin(SAVE_DIR, FinalName(strftime(0), NameHeic)), "c2")}

\* ------------------------------------------------------------ auth gate

\* The gate with "if token and token.strip() != ...": a request without a
\* usable header falls through
AuthorizedM(token) ==
    \/ token = None
    \/ token = <<>>
    \/ Strip(token, Whitespace) = Strip(AUTH_TOKEN, Whitespace)

\* not (not token or token.strip() != AUTH_TOKEN.strip())
Authorized(token) ==
    /\ token # None
    /\ token # <<>>
    /\ Strip(token, Whitespace) = Strip(AUTH_TOKEN, Whitespace)

\* ------------------------------------------------------------ converter

\* A converter whose except branch returns a marker of its own
FailureResultM == "failed"

\* What the converter returns when its try block raised
FailureResult == None

\* A converter that opens the image outside its try block
EscapesM(outcome) == outcome = "decode_error"

\* Whether an exception raised inside the converter's try block leaves the
\* function: "except Exception" catches every one.
Escapes(outcome) == FALSE

\* A converter that never removes the original
RemoveOriginalM(d, original_path, outcome) == d

\* os.remove(original_path) in its own try/except OSError
RemoveOriginal(d, original_path, outcome) ==
    IF DELETE_HEIC_AFTER_CONVERT /\ outcome # "remove_error"
    THEN Remove(d, original_path)
    ELSE d

\* convert_heic_to_jpeg(original_path) in directory d under the environment's
\* outcome: the value returned, the directory left, the number of files
\* written or removed, and whether an exception leaves the function.
convert_heic_to_jpeg(original_path, d, outcome) ==
    LET ext       == Lower(SplitextExt(original_path))
        base      == SplitextRoot(Basename(original_path))
        jpeg_name == base \o JpgExt
        jpeg_path == PathJoin(SAVE_DIR, jpeg_name)
    IN IF ext \notin HeicExts
       THEN [result |-> None, dir |-> d, ops |-> 0, raises |-> FALSE]
       ELSE IF outcome = "decode_error" \/ ~IsFile(d, original_path)
       THEN [result |-> FailureResult, dir |-> d, ops |-> 0,
             raises |-> Escapes(outcome)]
       ELSE IF outcome = "encode_error"
       THEN [result |-> FailureResult, dir |-> Write(d, jpeg_path, Truncated),
             ops |-> 1, raises |-> Escapes(outcome)]
       ELSE LET written == Write(d, jpeg_path, Jpeg(d[original_path]))
                left    == RemoveOriginal(written, original_path, outcome)
            IN [result |-> jpeg_name, dir |-> left,
                ops |-> IF left = written THEN 1 ELSE 2, raises |-> FALSE]

\* ------------------------------------------------------------- notifier

\* show_notification(title, message, image_path): the toast built, whether
\* toast.show() went through, and whether an exception leaves the function.
show_notification(title, message, image_path, d, shows) ==
    [title |-> title, msg |-> message, image_path |-> image_path,
     icon |-> IF image_path # None /\ IsFile(d, image_path)
              THEN image_path ELSE <<>>,
     shown |-> shows, raises |-> FALSE]

\* --------------------------------------------------------------- upload

\* A save of an already consumed stream: the file is created empty
SaveUploadM(d, full_path, content) == Write(d, full_path, Truncated)

\* f.save(full_path)
SaveUpload(d, full_path, content) == Write(d, full_path, content)

\* One iteration of "for f in files" at second t under the environment's
\* outcome: the names appended to saved and to converted, and the directory.
UploadFile(f, t, outcome, d) ==
    IF f.filename = <<>>
    THEN [saved |-> <<>>, converted |-> <<>>, dir |-> d, ops |-> 0,
          raises |-> FALSE]
    ELSE LET safe_name  == secure_filename(f.filename)
             final_name == FinalName(strftime(t), safe_name)
             full_path  == PathJoin(SAVE_DIR, final_name)
             stored     == SaveUpload(d, full_path, f.content)
             ext        == Lower(SplitextExt(safe_name))
         IN IF ext \in HeicExts
            THEN LET c == convert_heic_to_jpeg(full_path, stored, outcome)
                 IN [saved |-> <<final_name>>,
                     converted |-> IF c.result # None /\ c.result # <<>>
                                   THEN <<c.result>> ELSE <<>>,
                     dir |-> c.dir, ops |-> 1 + c.ops, raises |-> c.raises]
            ELSE [saved |-> <<final_name>>, converted |-> <<>>,
                  dir |-> stored, ops |-> 1, raises |-> FALSE]

\* An upload without the "if not saved" check
NoneSavedM(saved) == FALSE

\* if not saved: return 400
NoneSaved(saved) == saved = <<>>

\* display_names = saved + ["(converted) " + name for name in converted]
DisplayNames(saved, converted) ==
    saved \o [i \in DOMAIN converted |-> ConvertedPrefix \o converted[i]]

\* A message cut to three names without the marker
MessageM(display_names) ==
    IF Len(display_names) = 1
    THEN display_names[1]
    ELSE JoinComma(SubSeq(display_names, 1,
                          IF Len(display_names) < MsgLimit
                          THEN Len(display_names) ELSE MsgLimit))

\* The notification message
Message(display_names) ==
    IF Len(display_names) = 1
    THEN display_names[1]
    ELSE LET shown == SubSeq(display_names, 1,
                             IF Len(display_names) < MsgLimit
                             THEN Len(display_names) ELSE MsgLimit)
         IN IF Len(display_names) > MsgLimit
            THEN JoinComma(shown) \o Ellipsis
            ELSE JoinComma(shown)

\* A preview that looks among the saved originals first
PreviewPathM(saved, converted) ==
    LET images == {i \in DOMAIN saved :
                      Lower(SplitextExt(saved[i])) \in PreviewExts}
    IN IF images # {}
       THEN PathJoin(SAVE_DIR,
                     saved[CHOOSE i \in images : \A j \in images : i <= j])
       ELSE IF converted # <<>> THEN PathJoin(SAVE_DIR, converted[1])
       ELSE None

\* The image previewed in the toast
PreviewPath(saved, converted) ==
    IF converted # <<>>
    THEN PathJoin(SAVE_DIR, converted[1])
    ELSE LET images == {i \in DOMAIN saved :
                           Lower(SplitextExt(saved[i])) \in PreviewExts}
         IN IF images = {} THEN None
            ELSE PathJoin(SAVE_DIR,
                          saved[CHOOSE i \in images : \A j \in images : i <= j])

\* A response that lists the converted names too
SavedBodyM(saved, converted) == [saved |-> saved \o converted]

\* jsonify({"saved": saved})
SavedBody(saved, converted) == [saved |-> saved]

\* ---------------------------------------------------------------- state

VARIABLES
    clock,      \* the wall clock, in seconds
    dir,        \* the save directory: path -> bytes
    pc,         \* where the request is: idle, before_request, dispatch,
                \* loop, done (or converter, under ConvSpec)
    req,        \* the request being served
    idx,        \* the position of "for f in files"
    saved,      \* upload's list saved
    converted,  \* upload's list converted
    toasts,     \* the calls of show_notification, in order
    resp,       \* the response sent
    fsOps,      \* files written or removed since the request arrived
    log,        \* per entry reached: the second read and the outcome drawn
    convLog     \* the converter calls made under ConvSpec

vars == <<clock, dir, pc, req, idx, saved, converted, toasts, resp, fsOps,
          log, convLog>>

NoReq == [path |-> None, token |-> None, files |-> <<>>]

NoResp == [status |-> 0, body |-> [none |-> TRUE]]

Init ==
    /\ clock = 0
    /\ dir \in InitDirs
    /\ pc = "idle"
    /\ req = NoReq
    /\ idx = 0
    /\ saved = <<>>
    /\ converted = <<>>
    /\ toasts = <<>>
    /\ resp = NoResp
    /\ fsOps = 0
    /\ log = <<>>
    /\ convLog = <<>>

\* A request arrives.
Receive ==
    /\ pc = "idle"
    /\ \E r \in Requests : req' = r
    /\ pc' = "before_request"
    /\ UNCHANGED <<clock, dir, idx, saved, converted, toasts, resp, fsOps,
                   log, convLog>>

\* @app.before_request
check_auth ==
    /\ pc = "before_request"
    /\ IF req.path = "/status" \/ Authorized(req.token)
       THEN /\ pc' = "dispatch"
            /\ resp' = resp
       ELSE /\ pc' = "done"
            /\ resp' = [status |-> 401, body |-> [error |-> "unauthorized"]]
    /\ UNCHANGED <<clock, dir, req, idx, saved, converted, toasts, fsOps,
                   log, convLog>>

\* GET /status
status ==
    /\ pc = "dispatch"
    /\ req.path = "/status"
    /\ resp' = [status |-> 200, body |-> [online |-> TRUE]]
    /\ pc' = "done"
    /\ UNCHANGED <<clock, dir, req, idx, saved, converted, toasts, fsOps,
                   log, convLog>>

\* A path no route matches
not_found ==
    /\ pc = "dispatch"
    /\ req.path \notin {"/status", "/upload"}
    /\ resp' = [status |-> 404, body |-> [error |-> "not found"]]
    /\ pc' = "done"
    /\ UNCHANGED <<clock, dir, req, idx, saved, converted, toasts, fsOps,
                   log, convLog>>

\* POST /upload, up to the loop
upload_begin ==
    /\ pc = "dispatch"
    /\ req.path = "/upload"
    /\ IF req.files = <<>>
       THEN /\ resp' = [status |-> 400,
                        body |-> [error |-> "no file field in form"]]
            /\ pc' = "done"
            /\ idx' = idx
       ELSE /\ resp' = resp
            /\ pc' = "loop"
            /\ idx' = 1
    /\ saved' = <<>>
    /\ converted' = <<>>
    /\ UNCHANGED <<clock, dir, req, toasts, fsOps, log, convLog>>

\* POST /upload, one iteration of the loop
upload_file ==
    /\ pc = "loop"
    /\ idx <= Len(req.files)
    /\ \E t \in clock..MaxClock, o \in Outcomes :
          LET f == req.files[idx]
              applies == /\ f.filename # <<>>
                         /\ Lower(SplitextExt(secure_filename(f.filename)))
                                \in HeicExts
              u == UploadFile(f, t, o, dir)
          IN /\ f.filename = <<>> => t = clock
             /\ ~applies => o = "ok"
             /\ clock' = t
             /\ dir' = u.dir
             /\ saved' = saved \o u.saved
             /\ converted' = converted \o u.converted
             /\ fsOps' = fsOps + u.ops
             /\ log' = Append(log, [t |-> t,
                                    outcome |-> IF applies THEN o ELSE "none"])
             /\ IF u.raises
                THEN /\ pc' = "done"
                     /\ resp' = [status |-> 500, body |-> [error |-> "internal"]]
                ELSE /\ pc' = pc
                     /\ resp' = resp
    /\ idx' = idx + 1
    /\ UNCHANGED <<req, toasts, convLog>>

\* POST /upload, after the loop
upload_finish ==
    /\ pc = "loop"
    /\ idx > Len(req.files)
    /\ IF NoneSaved(saved)
       THEN /\ resp' = [status |-> 400,
                        body |-> [error |-> "no valid files uploaded"]]
            /\ toasts' = toasts
       ELSE \E shows \in BOOLEAN :
               LET n == show_notification(
                            ToastTitle,
                            Message(DisplayNames(saved, converted)),
                            PreviewPath(saved, converted), dir, shows)
               IN /\ toasts' = Append(toasts, n)
                  /\ resp' = IF n.raises
                             THEN [status |-> 500, body |-> [error |-> "internal"]]
                             ELSE [status |-> 200,
                                   body |-> SavedBody(saved, converted)]
    /\ pc' = "done"
    /\ UNCHANGED <<clock, dir, req, idx, saved, converted, fsOps, log, convLog>>

Next ==
    \/ Receive
    \/ check_auth
    \/ status
    \/ not_found
    \/ upload_begin
    \/ upload_file
    \/ upload_finish

Spec == Init /\ [][Next]_vars

\* ------------------------------------------ the converter, called alone

\* A save directory holding every non-empty name of the pool, stored at
\* second 0
ConvDir ==
    [p \in {PathJoin(SAVE_DIR, FinalName(strftime(0), secure_filename(n))) :
                n \in FileNames \ {NameEmpty}} |-> "c1"]

ConvInit ==
    /\ clock = 0
    /\ dir = ConvDir
    /\ pc = "converter"
    /\ req = NoReq
    /\ idx = 0
    /\ saved = <<>>
    /\ converted = <<>>
    /\ toasts = <<>>
    /\ resp = NoResp
    /\ fsOps = 0
    /\ log = <<>>
    /\ convLog = <<>>

\* convert_heic_to_jpeg(original_path) on a path of the save directory
ConvCall ==
    /\ pc = "converter"
    /\ Len(convLog) < MaxCalls
    /\ \E p \in DOMAIN ConvDir, o \in Outcomes :
          LET c == convert_heic_to_jpeg(p, dir, o)
          IN /\ dir' = c.dir
             /\ fsOps' = fsOps + c.ops
             /\ convLog' = Append(convLog,
                                  [path |-> p, outcome |-> o,
                                   isfile |-> IsFile(dir, p),
                                   result |-> c.result])
    /\ UNCHANGED <<clock, pc, req, idx, saved, converted, toasts, resp, log>>

ConvNext == ConvCall

ConvSpec == ConvInit /\ [][ConvNext]_vars

\* ---------------------------------------------------------------- claims

\* What the claims say of a request, in terms of its entries, the second
\* read for each (log) and what the environment did to each conversion.

IsNamed(i) == req.files[i].filename # <<>>

StoredName(i) ==
    FinalName(strftime(log[i].t), secure_filename(req.files[i].filename))

StoredPath(i) == PathJoin(SAVE_DIR, StoredName(i))

\* s ends, letter case aside, in one of the extensions
EndsWith(s, exts) ==
    \E x \in exts :
        /\ Len(s) >= Len(x)
        /\ Lower(SubSeq(s, Len(s) - Len(x) + 1, Len(s))) = x

IsHeicEntry(i) == IsNamed(i) /\ EndsWith(StoredName(i), HeicExts)

\* The stored name with its five-character extension replaced by .jpg
JpegName(i) ==
    SubSeq(StoredName(i), 1, Len(StoredName(i)) - 5) \o <<".", "j", "p", "g">>

JpegPath(i) == PathJoin(SAVE_DIR, JpegName(i))

WasConverted(i) == IsHeicEntry(i) /\ log[i].outcome \in {"ok", "remove_error"}

BadToken(tok) ==
    \/ tok = None
    \/ tok = <<>>
    \/ Strip(tok, Whitespace) # Strip(AUTH_TOKEN, Whitespace)

AuthorizedUpload == req.path = "/upload" /\ ~BadToken(req.token)

Answered == pc = "done"

UploadOk == pc = "done" /\ req.path = "/upload" /\ resp.status = 200

AllUnnamed == \A i \in DOMAIN req.files : ~IsNamed(i)

NumFiles == Cardinality({i \in DOMAIN req.files : IsNamed(i)})

RECURSIVE StoredNames(_)
StoredNames(n) ==
    IF n = 0 THEN <<>>
    ELSE StoredNames(n - 1) \o (IF IsNamed(n) THEN <<StoredName(n)>> ELSE <<>>)

\* No later entry of the request is stored under entry i's name
NoLaterSameName(i) ==
    \A j \in (i + 1)..Len(req.files) :
        IsNamed(j) => StoredPath(j) # StoredPath(i)

\* No later HEIC/HEIF entry of the request has entry i's name as its sibling
NoLaterSibling(i) ==
    \A j \in (i + 1)..Len(req.files) :
        IsHeicEntry(j) => JpegPath(j) # StoredPath(i)

Error(code, text) == [status |-> code, body |-> [error |-> text]]

\* C1: a request to a path other than /status whose token is absent, empty
\* or differs after trimming from the trimmed secret is answered 401
\* "unauthorized", never reaches a handler, writes no file and shows no toast.
C1_UnauthorizedRejected ==
    (pc \notin {"idle", "converter"} /\ req.path # "/status"
        /\ BadToken(req.token))
    => /\ pc \in {"before_request", "done"}
       /\ fsOps = 0
       /\ dir \in InitDirs
       /\ toasts = <<>>
       /\ saved = <<>>
       /\ pc = "done" => resp = Error(401, "unauthorized")

C1_Witness ==
    /\ pc = "done"
    /\ req.path = "/upload"
    /\ req.token = <<"p", "W">>
    /\ Len(req.files) = 2
    /\ IsNamed(1)
    /\ resp.status = 401

\* C2 as stated: an authorized upload whose entries are all unnamed, or that
\* has no entry, fails with "no valid files uploaded", writes no file and
\* shows no toast.
C2_Original ==
    (Answered /\ AuthorizedUpload /\ AllUnnamed)
    => /\ resp = Error(400, "no valid files uploaded")
       /\ fsOps = 0
       /\ toasts = <<>>

\* C2 as amended: with entries that are all unnamed the upload fails with
\* "no valid files uploaded", with no entry under "file" it fails with "no
\* file field in form"; either way the status is 400, no file is written
\* and no toast is shown.
C2_EmptyUploadRejected ==
    (Answered /\ AuthorizedUpload /\ AllUnnamed)
    => /\ resp = Error(400, IF req.files = <<>>
                            THEN "no file field in form"
                            ELSE "no valid files uploaded")
       /\ fsOps = 0
       /\ dir \in InitDirs
       /\ toasts = <<>>

C2_Witness ==
    /\ Answered
    /\ AuthorizedUpload
    /\ Len(req.files) = 2
    /\ AllUnnamed
    /\ resp.status = 400

\* C3 as stated: the saved list of a 200 response holds one name per named
\* entry, in order, each <timestamp>_<sanitized name>, and no name of a
\* converted JPEG is in the list.
C3_Original ==
    UploadOk
    => /\ resp.body = [saved |-> StoredNames(Len(req.files))]
       /\ \A i \in DOMAIN req.files :
             WasConverted(i)
             => \A k \in DOMAIN resp.body.saved :
                   resp.body.saved[k] # JpegName(i)

\* C3 as amended: the saved list of a 200 response holds exactly one name
\* per named entry, in order, each <timestamp>_<sanitized name>; unnamed
\* entries add nothing and conversions add nothing (a converted JPEG's name
\* is in the list only as the stored name of an entry).
C3_SavedList ==
    UploadOk
    => /\ Len(log) = Len(req.files)
       /\ resp.body = [saved |-> StoredNames(Len(req.files))]
       /\ Len(resp.body.saved) = NumFiles

C3_Witness ==
    /\ UploadOk
    /\ Len(req.files) = 2
    /\ ~IsNamed(1)
    /\ WasConverted(2)

\* C4 as stated: after a 200, every named entry that is not HEIC/HEIF has
\* its uploaded bytes in the file under its saved name, whatever the names
\* of the batch.
C4_Original ==
    UploadOk
    => \A i \in DOMAIN req.files :
          (IsNamed(i) /\ ~IsHeicEntry(i))
          => /\ IsFile(dir, StoredPath(i))
             /\ dir[StoredPath(i)] = req.files[i].content

\* C4 as amended: after a 200, every named entry that is not HEIC/HEIF has
\* its uploaded bytes in the file under its saved name, provided no later
\* entry of the request is stored under that name and no later HEIC/HEIF
\* entry has that name as its .jpg sibling.
C4_ContentKept ==
    UploadOk
    => \A i \in DOMAIN req.files :
          (IsNamed(i) /\ ~IsHeicEntry(i)
              /\ NoLaterSameName(i) /\ NoLaterSibling(i))
          => /\ IsFile(dir, StoredPath(i))
             /\ dir[StoredPath(i)] = req.files[i].content

C4_Witness ==
    /\ UploadOk
    /\ Len(req.files) = 2
    /\ req.files[1].filename = NameJpg
    /\ req.files[2].filename = NameHeic
    /\ log[1].t # log[2].t
    /\ log[2].outcome = "ok"
    /\ dir[StoredPath(1)] = req.files[1].content

\* C5: an authorized upload with a named entry is answered 200 with the
\* saved list, whatever happens to a conversion, to the removal of an
\* original or to the toast; every entry is reached, every named one is
\* saved and every conversion that succeeds is recorded.
C5_FailuresIsolated ==
    (Answered /\ AuthorizedUpload /\ ~AllUnnamed)
    => /\ resp.status = 200
       /\ Len(log) = Len(req.files)
       /\ resp.body = [saved |-> saved]
       /\ \A i \in DOMAIN req.files :
             /\ IsNamed(i) => \E k \in DOMAIN saved : saved[k] = StoredName(i)
             /\ WasConverted(i)
                => \E k \in DOMAIN converted : converted[k] = JpegName(i)

C5_Witness ==
    /\ Answered
    /\ AuthorizedUpload
    /\ resp.status = 200
    /\ Len(req.files) = 2
    /\ IsHeicEntry(1)
    /\ log[1].outcome = "decode_error"
    /\ IsHeicEntry(2)
    /\ log[2].outcome = "remove_error"
    /\ toasts[1].shown = FALSE

FirstOf(S) == CHOOSE i \in S : \A j \in S : i <= j

\* C6: a 200 upload shows exactly one toast, whose preview path is the first
\* converted JPEG if a conversion succeeded, else the first saved original
\* ending in .jpg, .jpeg, .png, .bmp or .gif (any letter case), else none.
C6_PreviewPriority ==
    UploadOk
    => /\ Len(toasts) = 1
       /\ LET done   == {i \in DOMAIN req.files : WasConverted(i)}
              images == {i \in DOMAIN req.files :
                            IsNamed(i) /\ EndsWith(StoredName(i), PreviewExts)}
          IN toasts[1].image_path =
                IF done # {} THEN JpegPath(FirstOf(done))
                ELSE IF images # {} THEN StoredPath(FirstOf(images))
                ELSE None

C6_Witness ==
    /\ UploadOk
    /\ Len(req.files) = 2
    /\ req.files[1].filename = NameTxt
    /\ req.files[2].filename = NameHeic
    /\ WasConverted(2)
    /\ toasts[1].image_path = JpegPath(2)

Comma == <<",", " ">>

\* C7 as stated: the message of an upload of one file, converted or not, is
\* its saved name alone; the message of an upload of five files is the
\* first three saved names joined by ", " and followed by ", ...".
C7_Original ==
    UploadOk
    => /\ NumFiles = 1 => toasts[1].msg = resp.body.saved[1]
       /\ NumFiles = 5
          => toasts[1].msg =
                resp.body.saved[1] \o Comma \o resp.body.saved[2] \o Comma
                    \o resp.body.saved[3] \o <<",", " ", ".", ".", ".">>

\* C7 as amended: the message of an upload of one file is its saved name
\* alone when the file was not converted, and its saved name, ", " and
\* "(converted) " with the JPEG's name when it was; the message of an upload
\* of five files is the first three saved names joined by ", " and followed
\* by ", ...".
C7_Message ==
    UploadOk
    => /\ NumFiles = 1
          => LET i == CHOOSE i \in DOMAIN req.files : IsNamed(i)
             IN toasts[1].msg =
                   IF WasConverted(i)
                   THEN resp.body.saved[1] \o Comma
                            \o <<"(", "c", "o", "n", "v", "e", "r", "t", "e",
                                 "d", ")", " ">> \o JpegName(i)
                   ELSE resp.body.saved[1]
       /\ NumFiles = 5
          => toasts[1].msg =
                resp.body.saved[1] \o Comma \o resp.body.saved[2] \o Comma
                    \o resp.body.saved[3] \o <<",", " ", ".", ".", ".">>

C7_Witness ==
    /\ UploadOk
    /\ NumFiles = 5
    /\ Len(toasts) = 1

\* C8 as stated: after a 200, every HEIC/HEIF entry whose conversion
\* succeeded has its .jpg sibling in the save directory and no file under
\* its stored name, unless removing the original failed, and then both
\* files are there.
C8_Original ==
    UploadOk
    => \A i \in DOMAIN req.files :
          WasConverted(i)
          => /\ IsFile(dir, JpegPath(i))
             /\ log[i].outcome = "ok" => ~IsFile(dir, StoredPath(i))
             /\ log[i].outcome = "remove_error" => IsFile(dir, StoredPath(i))

\* C8 as amended: after a 200, every HEIC/HEIF entry whose conversion
\* succeeded has its .jpg sibling in the save directory and, provided no
\* later entry of the request is stored under the same name, no file under
\* its stored name, unless removing the original failed, and then both
\* files are there.
C8_SiblingReplacesOriginal ==
    UploadOk
    => \A i \in DOMAIN req.files :
          WasConverted(i)
          => /\ IsFile(dir, JpegPath(i))
             /\ NoLaterSameName(i)
                => /\ log[i].outcome = "ok" => ~IsFile(dir, StoredPath(i))
                   /\ log[i].outcome = "remove_error"
                      => IsFile(dir, StoredPath(i))

C8_Witness ==
    /\ UploadOk
    /\ Len(req.files) = 2
    /\ req.files[1].filename = NameHeic
    /\ req.files[2].filename = NameHeic
    /\ log[1].outcome = "ok"
    /\ log[1].t # log[2].t
    /\ ~IsFile(dir, StoredPath(1))

NotApplicable(c) == ~EndsWith(c.path, HeicExts)

Failed(c) ==
    /\ EndsWith(c.path, HeicExts)
    /\ c.outcome \in {"decode_error", "encode_error"} \/ ~c.isfile

\* C9 as stated: what the converter returns for a path that is not
\* HEIC/HEIF differs from what it returns for a conversion that failed.
C9_Original ==
    \A i, j \in DOMAIN convLog :
        (NotApplicable(convLog[i]) /\ Failed(convLog[j]))
        => convLog[i].result # convLog[j].result

\* C9 as amended: the converter returns None both for a path that is not
\* HEIC/HEIF and for a conversion that failed, and the JPEG's basename for
\* a conversion that succeeded; only the extension check its caller makes
\* before the call tells the first two apart.
C9_SameNullResult ==
    \A i \in DOMAIN convLog :
        LET c == convLog[i]
        IN IF NotApplicable(c) \/ Failed(c)
           THEN c.result = None
           ELSE c.result =
                   SubSeq(c.path, Len(SAVE_DIR) + 2, Len(c.path) - 5)
                       \o <<".", "j", "p", "g">>

C9_Witness ==
    \E i, j \in DOMAIN convLog :
        NotApplicable(convLog[i]) /\ Failed(convLog[j])

\* C10 as stated: every stored name has a non-empty basename after the
\* timestamp and the underscore, a generic name standing in for a filename
\* that sanitization empties.
C10_Original ==
    \A k \in DOMAIN saved : Len(saved[k]) > Len(strftime(0)) + 1

====
